---------------------------- MODULE Spec2Model ----------------------------
(***************************************************************************)
(* Model of the dam-monitoring backend (wesdom-screen, src/api):           *)
(*   - FusionPredictor.predict / predict_current   (src/api/src/predictor.py)*)
(*   - DataProcessor.get_point_data          (src/api/src/data_processor.py)*)
(*   - detect_anomalies, get_predictor, CONTEXT_CACHE       (src/api/app.py)*)
(*                                                                         *)
(* Arithmetic.  The code computes in IEEE doubles.  The model computes the *)
(* same formulas exactly over the rationals and reports forecast numbers   *)
(* in fixed point, in units of 1/Scale (floor rounding).  Anomaly scores   *)
(* are kept as exact reduced fractions of the SQUARED score, so that the   *)
(* comparisons with the cut points 1.5, 2 and 3 are exact.                 *)
(***************************************************************************)
EXTENDS Integers, Sequences, FiniteSets, TLC

VARIABLES
    store,          \* monitoring_values: point name -> readings, oldest first
    nOld,           \* point name -> number of readings older than the cutoff of a bulk read
    corrupt,        \* points with a recent reading whose value is not a number
    request,        \* arguments of the last FusionPredictor.predict call
    result,         \* value returned by that call
    response,       \* HTTP answer of POST /api/predict for that call
    sweep,          \* last response of detect_anomalies
    realtime,       \* last response of get_realtime_status
    reads,          \* queries sent to the store by the last sweep or status request
    predictor,      \* app.py global `predictor` (0 = None, else instance id)
    instances,      \* FusionPredictor objects constructed so far
    loaded,         \* instance id -> number of completed load_data() calls
    CONTEXT_CACHE,  \* app.py global CONTEXT_CACHE
    generations,    \* number of generate_rag_context() results produced
    pc,             \* request thread -> position in its handler
    kind,           \* request thread -> which handler it runs
    got,            \* request thread -> instance returned by get_predictor
    context,        \* request thread -> local `context` handed to the analyzer
    readings,       \* monitoring_values rows of one point, with their timestamps
    frame,          \* DataFrame returned by the last timestamped get_point_data
    SESSION_MEMORY, \* ai_analyzer.py global SESSION_MEMORY, for one session id
    reply,          \* what the last ask_agent call handed back
    predictions_table, \* table `predictions`: the point names upserted so far
    batch,          \* last response of a batch endpoint
    rag,            \* what the last generate_rag_context() found and returned
    report,         \* last response of GET /api/ai_anomaly_report
    sse,            \* events of the last /api/ask_agent_stream response
    session_present \* whether SESSION_MEMORY holds the key of the session

vars == <<store, nOld, corrupt, request, result, response, sweep, realtime,
          reads, predictor, instances, loaded, CONTEXT_CACHE, generations, pc,
          kind, got, context, readings, frame, SESSION_MEMORY, reply,
          predictions_table, batch, rag, report, sse, session_present>>

storeVars == <<store, nOld, corrupt>>
predictVars == <<request, result, response>>
sweepVars == <<sweep, realtime, reads>>
seriesVars == <<readings, frame>>
agentVars == <<SESSION_MEMORY, reply>>
batchVars == <<predictions_table, batch>>
viewVars == <<rag, report, sse, session_present>>
threadVars == <<predictor, instances, loaded, CONTEXT_CACHE, generations,
                pc, kind, got, context>>

\* external_data=None, and a frame of rows handed in by the caller
NoExternal == [given |-> FALSE, rows |-> << >>]
External(rows) == [given |-> TRUE, rows |-> rows]

-----------------------------------------------------------------------------
(* Bounds of the model *)

MaxLen == 5         \* longest stored series in the forecast specification
MaxSteps == 2       \* largest forecast horizon
MaxReadings == 8    \* longest stored series in the sweep specification
NumThreads == 2     \* concurrent request threads
MaxRows == 3        \* most rows of the timestamped table
MaxLimit == 3       \* largest `limit` of a timestamped read
MaxMemory == 10     \* most entries of the session memory
MaxBatch == 2       \* most names in the body of /api/batch_predict
MaxSpot == 6        \* longest stored series in the spot-check specification

(* Program constants *)

MinObservations == 5    \* len(df) < 5
Scale == 100            \* fixed-point resolution of the model: 1/100
Period == 30            \* period = 30
PredictLimit == 100     \* get_point_data(point_name, limit=100)
CurrentLimit == 20      \* get_point_data(point_name, limit=20)
SweepWindow == 30       \* .tail(30)
HistoryWindow == 6      \* SESSION_MEMORY[session_id][-6:]
DialogueRounds == 6     \* 取最近 6 轮对话
SpotLimit == 5          \* .order('measured_at', desc=True).limit(5)
SpotMin == 3            \* len(vals) < 3
SpotThreshold == 2      \* > 2.0

-----------------------------------------------------------------------------
(* Sequences and integer helpers *)

SeqsUpTo(S, n) == UNION {[1..k -> S] : k \in 0..n}

RECURSIVE GCD(_, _)
GCD(a, b) == IF b = 0 THEN a ELSE GCD(b, a % b)

RECURSIVE SumTo(_, _)
SumTo(f, n) == IF n = 0 THEN 0 ELSE f[n] + SumTo(f, n - 1)

\* Sum of the elements of a sequence of integers
Sum(s) == SumTo(s, Len(s))

\* Sum of squares
SumSq(s) == SumTo([i \in 1..Len(s) |-> s[i] * s[i]], Len(s))

\* The last k elements of s (all of s when it is shorter): DataFrame.tail(k)
LastN(s, k) == IF Len(s) <= k THEN s ELSE SubSeq(s, Len(s) - k + 1, Len(s))

\* floor(sqrt(n)) for 0 <= n < 2^31, by bisection: lo * lo <= n < hi * hi
RECURSIVE IsqrtBetween(_, _, _)
IsqrtBetween(n, lo, hi) ==
    IF hi - lo <= 1 THEN lo
    ELSE LET mid == (lo + hi) \div 2
         IN  IF mid * mid <= n THEN IsqrtBetween(n, mid, hi)
                               ELSE IsqrtBetween(n, lo, mid)
Isqrt(n) == IsqrtBetween(n, 0, 46341)


-----------------------------------------------------------------------------
(* The backing store and DataProcessor.get_point_data *)

Points == {"P1", "P2"}          \* rows of monitoring_points
UnknownPoint == "PX"            \* a name that monitoring_points does not hold
PointNames == Points \cup {UnknownPoint}

\* DataProcessor.get_point_data(point_name, limit) in Supabase mode.
\* `up` is FALSE when the query raises: the except branch returns an empty
\* frame.  An unknown name returns an empty frame as well.  The query takes
\* the `limit` newest rows and the result is sorted oldest first.
get_point_dataAnyName(st, point_name, limit, up) ==
    IF ~up THEN << >>
    ELSE LastN(st[IF point_name \in DOMAIN st THEN point_name ELSE "P1"], limit)
get_point_data(st, point_name, limit, up) ==
    IF point_name \notin DOMAIN st THEN << >>
    ELSE IF ~up THEN << >>
    ELSE LastN(st[point_name], limit)

-----------------------------------------------------------------------------
(* FusionPredictor.predict *)

\* x = np.arange(len(values)): the sums a degree-1 least-squares fit needs
Sx(n) == SumTo([i \in 1..n |-> i - 1], n)
Sxx(n) == SumTo([i \in 1..n |-> (i - 1) * (i - 1)], n)
Sxy(y) == SumTo([i \in 1..Len(y) |-> (i - 1) * y[i]], Len(y))

\* n * sum(y^2) - sum(y)^2  (n^2 times the population variance of y)
SpreadQ(y) == Len(y) * SumSq(y) - Sum(y) * Sum(y)

\* z = np.polyfit(x, y, 1); p = np.poly1d(z), kept as the integers that
\* determine the fit: slope = a / d, intercept = (sy * d - a * sx) / (n * d)
Fit(y) ==
    LET n == Len(y)
    IN  [ n |-> n, sx |-> Sx(n), sy |-> Sum(y),
          d |-> n * Sxx(n) - Sx(n) * Sx(n),
          a |-> n * Sxy(y) - Sx(n) * Sum(y),
          q |-> SpreadQ(y) ]

\* p(x) = TrendNum(fit, x) / TrendDen(fit)
TrendNum(fit, x) == fit.a * x * fit.n + fit.sy * fit.d - fit.a * fit.sx
TrendDen(fit) == fit.n * fit.d

\* residuals = y - p(x); np.std(residuals)^2 = ResVarNum / ResVarDen
ResVarNum(fit) == fit.d * fit.q - fit.a * fit.a
ResVarDen(fit) == fit.n * fit.n * fit.d

\* std_dev in units of 1/Scale
StdDev(fit) == Isqrt((Scale * Scale * ResVarNum(fit)) \div ResVarDen(fit))

\* the test `std_dev > 0`, on the exact value
StdDevPositive(fit) == ResVarNum(fit) > 0

\* Scale * sin(2 * pi * k / 30), rounded, for k = 0..29
SinTable ==
    << 0, 21, 41, 59, 74, 87, 95, 99, 99, 95, 87, 74, 59, 41, 21,
       0, -21, -41, -59, -74, -87, -95, -99, -99, -95, -87, -74, -59, -41, -21 >>

\* trend_y = p(future_x)
TrendY(fit, x) == (Scale * TrendNum(fit, x)) \div TrendDen(fit)

\* amplitude = std_dev * 0.5 if std_dev > 0 else 0.1
Amplitude(fit, std_dev) ==
    IF StdDevPositive(fit) THEN std_dev \div 2 ELSE Scale \div 10

\* seasonal_y = amplitude * np.sin(2 * np.pi * future_x / period)
SeasonalY(amplitude, x) == (amplitude * SinTable[(x % Period) + 1]) \div Scale

\* np.random.normal(0, std_dev * 0.1, steps): a draw z of the standard
\* normal, scaled by std_dev * 0.1
NoiseZ == {-1, 1}
NoiseY(std_dev, z) == z * (std_dev \div 10)

\* 1.96 * std_dev
BandHalfWidth(std_dev) == (196 * std_dev) \div 100

\* confidence_upper = future_y + 1.96 * std_dev
ConfidenceUpperSwapped(y, std_dev) == y - BandHalfWidth(std_dev)
ConfidenceUpper(y, std_dev) == y + BandHalfWidth(std_dev)

\* confidence_lower = future_y - 1.96 * std_dev
ConfidenceLower(y, std_dev) == y - BandHalfWidth(std_dev)

\* future_x = np.arange(last_x + 1, last_x + 1 + steps)
FutureXLateStart(last_x, steps) == [i \in 1..(steps - 1) |-> last_x + 1 + i]
FutureX(last_x, steps) == [i \in 1..steps |-> last_x + i]

\* df.empty or len(df) < 5
InsufficientDataOffByOne(df) == Len(df) = 0 \/ Len(df) < MinObservations - 1
InsufficientData(df) == Len(df) = 0 \/ Len(df) < MinObservations

NotEnoughData == [status |-> "error", error |-> "Not enough data"]

\* round(a / b), for b > 0, a tie going to the even neighbour
RoundHalfEven(a, b) ==
    LET q == a \div b
        r == a - q * b
    IN  IF 2 * r < b THEN q
        ELSE IF 2 * r > b THEN q + 1
        ELSE IF q % 2 = 0 THEN q ELSE q + 1

\* volatility = min(0.9, std_dev / (values.mean() + 1e-6)) as the fraction
\* num / den with den > 0.  The mean is sy / n; the 1e-6 decides only when
\* the mean is 0, where the quotient is 0 for std_dev = 0 and beyond 0.9
\* otherwise.  A negative mean gives a negative quotient, which min leaves
\* as it is.
Volatility(fit, std_dev) ==
    IF fit.sy = 0
    THEN IF StdDevPositive(fit) THEN [num |-> 9, den |-> 10] ELSE [num |-> 0, den |-> 1]
    ELSE LET num == IF fit.sy > 0 THEN std_dev * fit.n ELSE 0 - std_dev * fit.n
             den == IF fit.sy > 0 THEN Scale * fit.sy ELSE 0 - Scale * fit.sy
         IN  IF 10 * num > 9 * den THEN [num |-> 9, den |-> 10]
             ELSE [num |-> num, den |-> den]

\* stacking_w = 0.5 + (volatility * 0.2); lstm_w = 1.0 - stacking_w; both
\* reported as round(w, 2), here in units of 1/Scale
StackingWeight(volatility) ==
    RoundHalfEven(Scale * (5 * volatility.den + 2 * volatility.num), 10 * volatility.den)
LstmWeight(volatility) ==
    RoundHalfEven(Scale * (5 * volatility.den - 2 * volatility.num), 10 * volatility.den)

\* df: the series predict works on (lines 34-37)
\* (first the same choice, were the override never used)
PredictFrameIgnoresOverride(st, point_name, external_data, up) ==
    get_point_data(st, point_name, PredictLimit, up)
PredictFrame(st, point_name, external_data, up) ==
    IF external_data.given /\ Len(external_data.rows) > 0
    THEN external_data.rows
    ELSE get_point_data(st, point_name, PredictLimit, up)

\* FusionPredictor.predict(point_name, steps, external_data); `noise` is the
\* vector of normal draws, `up` tells whether the store query succeeds
predict(st, point_name, steps, external_data, up, noise) ==
    LET df == PredictFrame(st, point_name, external_data, up)
        fit == Fit(df)
        std_dev == StdDev(fit)
        amplitude == Amplitude(fit, std_dev)
        future_x == FutureX(Len(df) - 1, steps)
        \* future_y = trend_y + seasonal_y + noise_y
        future_y == [i \in DOMAIN future_x |->
                        TrendY(fit, future_x[i]) + SeasonalY(amplitude, future_x[i])
                            + NoiseY(std_dev, noise[i])]
    IN  IF InsufficientData(df)
        THEN NotEnoughData
        ELSE [ status |-> "ok",
               point_name |-> point_name,
               history |-> LastN(df, 30),
               predictions |-> future_y,
               confidence_upper |->
                   [i \in DOMAIN future_y |-> ConfidenceUpper(future_y[i], std_dev)],
               confidence_lower |->
                   [i \in DOMAIN future_y |-> ConfidenceLower(future_y[i], std_dev)],
               weights |-> [ lstm |-> LstmWeight(Volatility(fit, std_dev)),
                             stacking |-> StackingWeight(Volatility(fit, std_dev)) ],
               uncertainty_std |-> std_dev ]

-----------------------------------------------------------------------------
(* Scores.  A score s >= 0 is kept as the reduced fraction of s * s. *)

Frac(n, d) == [num |-> n \div GCD(n, d), den |-> d \div GCD(n, d)]
Zero == [num |-> 0, den |-> 1]

\* a/b < c/d for a, c >= 0 and b, d > 0, without forming the cross products
RECURSIVE FracLess(_, _, _, _)
FracLess(a, b, c, d) ==
    IF a \div b # c \div d THEN a \div b < c \div d
    ELSE IF c % d = 0 THEN FALSE
    ELSE IF a % b = 0 THEN TRUE
    ELSE FracLess(d, c % d, b, a % b)

Less(s, t) == FracLess(s.num, s.den, t.num, t.den)

\* s > c, for a score s (held squared) and the constant c = cn / cd
Exceeds(s, cn, cd) == s.num * cd * cd > cn * cn * s.den

\* stats_score = abs((latest_val - mean_val) / std_val) if std_val > 0 else 0
\* over the window w, std_val being the sample standard deviation (ddof=1):
\* (latest - mean)^2 = d^2 / n^2, std^2 = Q / (n * (n - 1))
StatsScore(w) ==
    LET n == Len(w)
        d == n * w[n] - Sum(w)
    IN  IF SpreadQ(w) > 0
        THEN Frac(d * d * (n - 1), n * SpreadQ(w))
        ELSE Zero

\* FusionPredictor.predict_current(point_name): None when fewer than 5
\* readings come back (an unreachable store included), else residual and
\* uncertainty.  residual = |latest - mean(values[:-1])| = |d| / (n - 1),
\* uncertainty = np.std(values) = sqrt(Q) / n, or 0.1 when that is 0.
predict_current(st, point_name, up) ==
    LET values == get_point_data(st, point_name, CurrentLimit, up)
        n == Len(values)
        d == n * values[n] - Sum(values)
    IN  IF n < MinObservations
        THEN [available |-> FALSE]
        ELSE [ available |-> TRUE,
               residual2 |-> Frac(d * d, (n - 1) * (n - 1)),
               uncertainty2 |-> IF SpreadQ(values) > 0
                                THEN Frac(SpreadQ(values), n * n)
                                ELSE Frac(1, 100) ]

\* ai_score = residual / uncertainty when prediction_info is truthy, else 0
AiScoreIgnored(info) == Zero
AiScore(info) ==
    IF info.available
    THEN Frac(info.residual2.num * info.uncertainty2.den,
              info.residual2.den * info.uncertainty2.num)
    ELSE Zero

\* final_score = max(stats_score, ai_score)
FinalScoreStatsOnly(stats_score, ai_score) == stats_score
FinalScore(stats_score, ai_score) ==
    IF Less(stats_score, ai_score) THEN ai_score ELSE stats_score

\* s >= c
AtLeast(s, cn, cd) == s.num * cd * cd >= cn * cn * s.den

\* the severity ladder of lines 524-530 (and 572-575)
SeverityNonStrict(final_score) ==
    IF AtLeast(final_score, 3, 1) THEN "high"
    ELSE IF AtLeast(final_score, 2, 1) THEN "medium"
    ELSE IF AtLeast(final_score, 3, 2) THEN "low"
    ELSE "none"
Severity(final_score) ==
    IF Exceeds(final_score, 3, 1) THEN "high"
    ELSE IF Exceeds(final_score, 2, 1) THEN "medium"
    ELSE IF Exceeds(final_score, 3, 2) THEN "low"
    ELSE "none"

\* rows of the bulk fetch that belong to one point: the readings newer than
\* the cutoff, oldest first
RecentRows(st, old, p) == SubSeq(st[p], old[p] + 1, Len(st[p]))

\* if len(df_pt) < 5: continue
TooFewRowsEmptyOnly(df_pt) == Len(df_pt) = 0
TooFewRows(df_pt) == Len(df_pt) < MinObservations

\* one iteration of the loop over points (lines 496-542): the locals of the
\* iteration, `scored` being FALSE when the point is skipped
ScorePoint(st, old, p, up) ==
    LET df_pt == RecentRows(st, old, p)
        w == LastN(df_pt, SweepWindow)
        stats_score == StatsScore(w)
        info == predict_current(st, p, up)
        final_score == FinalScore(stats_score, AiScore(info))
    IN  IF TooFewRows(df_pt)
        THEN [scored |-> FALSE]
        ELSE [ scored |-> TRUE,
               point_name |-> p,
               current_value |-> w[Len(w)],
               stats_score |-> stats_score,
               ai_available |-> info.available,
               ai_score |-> AiScore(info),
               z_score |-> final_score,
               severity |-> Severity(final_score) ]

\* the order in which the points table lists the points
PointOrder == << "P1", "P2" >>

\* the verdicts of one severity, in the order the loop appended them
Verdicts(locals, sev) ==
    SelectSeq([i \in 1..Len(PointOrder) |-> locals[PointOrder[i]]],
              LAMBDA v : v.scored /\ v.severity = sev)

\* severity_order = {'high': 0, 'medium': 1, 'low': 2}
severity_order == [high |-> 0, medium |-> 1, low |-> 2]

\* the list as the loop leaves it, were it not sorted
UnsortedAnomalies(locals) ==
    SelectSeq([i \in 1..Len(PointOrder) |-> locals[PointOrder[i]]],
              LAMBDA v : v.scored /\ v.severity # "none")
\* anomalies.sort(key=severity_order): a stable sort on three keys
SortedAnomalies(locals) ==
    Verdicts(locals, "high") \o Verdicts(locals, "medium") \o Verdicts(locals, "low")

\* detect_anomalies in Supabase mode.  dbUp: the two bulk queries succeed
\* (otherwise the outer except answers 500, status "error"; status "ok" is
\* the response with success = True); aiUp[p]: the query made by
\* predict_current for p succeeds.  bad: the points with a recent reading
\* whose value is not a number: pd.to_numeric (line 489) converts the column
\* of the whole batch and raises on such a value, outside any per-point try,
\* so the outer except answers 500.
detect_anomalies(st, old, bad, dbUp, aiUp) ==
    IF ~dbUp
    THEN [status |-> "error", error |-> "store unreachable"]
    ELSE IF bad # {}
    THEN [status |-> "error", error |-> "unable to parse value"]
    ELSE LET locals == [p \in Points |-> ScorePoint(st, old, p, aiUp[p])]
             anomalies == SortedAnomalies(locals)
         IN  [ status |-> "ok",
               locals |-> locals,
               anomalies |-> anomalies,
               total_anomalies |-> Len(anomalies),
               by_severity |->
                   [ high |-> Len(SelectSeq(anomalies, LAMBDA a : a.severity = "high")),
                     medium |-> Len(SelectSeq(anomalies, LAMBDA a : a.severity = "medium")),
                     low |-> Len(SelectSeq(anomalies, LAMBDA a : a.severity = "low")) ] ]

\* the queries one sweep sends to the store: monitoring_points (line 474),
\* the bulk read of monitoring_values (lines 477-482), and, for every point
\* that is scored, the read get_point_data makes inside predict_current
\* (line 513, predictor.py line 136).  A query that raises ends the sweep.
BulkReads == 2
SweepReads(st, old, bad, dbUp) ==
    IF ~dbUp THEN 1
    ELSE IF bad # {} THEN BulkReads
    ELSE BulkReads + Cardinality({p \in Points : ~TooFewRows(RecentRows(st, old, p))})

-----------------------------------------------------------------------------
(* Initial values shared by the specifications *)

NoRequest == [point_name |-> UnknownPoint, steps |-> 0,
              external_data |-> NoExternal, store_up |-> TRUE]
NoResult == [status |-> "none"]

Threads == 1..NumThreads

ForecastIdle == request = NoRequest /\ result = NoResult /\ response = NoResult
SweepIdle == sweep = NoResult /\ realtime = NoResult /\ reads = 0
SeriesIdle == readings = << >> /\ frame = NoResult
AgentIdle == SESSION_MEMORY = << >> /\ reply = NoResult
BatchIdle == predictions_table = {} /\ batch = NoResult
ViewsIdle ==
    /\ rag = NoResult
    /\ report = NoResult
    /\ sse = NoResult
    /\ session_present = FALSE
ThreadsIdle ==
    /\ predictor = 0
    /\ instances = 0
    /\ loaded = [i \in Threads |-> 0]
    /\ CONTEXT_CACHE = 0
    /\ generations = 0
    /\ pc = [t \in Threads |-> "idle"]
    /\ kind = [t \in Threads |-> "none"]
    /\ got = [t \in Threads |-> 0]
    /\ context = [t \in Threads |-> 0]

-----------------------------------------------------------------------------
(* Forecast requests *)

Values == 0..4
Scenarios == { <<1, 2, 3, 4, 5>>, <<10, 10, 10, 10, 10>>, <<-1, 1, -1, 1, -1>> }

\* the stored series of the point that is forecast
SeriesInputs == SeqsUpTo(Values, MaxLen) \cup Scenarios

\* recent_history overrides a caller may send
ExternalInputs ==
    { NoExternal, External(<< >>), External(<<2, 4>>),
      External(<<3, 1, 4, 1, 5, 9>>) }

InitForecast ==
    /\ store \in {[p \in Points |-> IF p = "P1" THEN s ELSE << >>] : s \in SeriesInputs}
    /\ nOld = [p \in Points |-> 0]
    /\ corrupt = {}
    /\ ForecastIdle
    /\ SweepIdle
    /\ ThreadsIdle
    /\ ViewsIdle
    /\ SeriesIdle
    /\ AgentIdle
    /\ BatchIdle

\* the answer of POST /api/predict once predict has returned (lines 271-274)
PredictResponse(res) ==
    IF res.status = "error"
    THEN [status |-> "sent", code |-> 400, success |-> FALSE, error |-> res.error]
    ELSE [status |-> "sent", code |-> 200, success |-> TRUE, error |-> ""]

\* one call of FusionPredictor.predict, and the answer the handler of
\* /api/predict builds from what it returns; store_up records whether the
\* store answered the query of get_point_data
\* (first the same call, were it to append its first forecast to the
\* readings of the point)
PredictWritesBack ==
    /\ result.status = "none"
    /\ \E point_name \in {"P1", UnknownPoint}, steps \in 0..MaxSteps,
       external_data \in ExternalInputs, up \in BOOLEAN :
        \E noise \in [1..steps -> NoiseZ] :
            /\ request' = [point_name |-> point_name, steps |-> steps,
                           external_data |-> external_data, store_up |-> up]
            /\ result' = predict(store, point_name, steps, external_data, up, noise)
            /\ response' = PredictResponse(result')
            /\ store' = IF point_name \in Points /\ result'.status = "ok" /\ steps >= 1
                        THEN [store EXCEPT ![point_name] =
                                 Append(@, result'.predictions[1] \div Scale)]
                        ELSE store
            /\ UNCHANGED <<nOld, corrupt, sweepVars, threadVars, viewVars, seriesVars,
                           agentVars, batchVars>>
Predict ==
    /\ result.status = "none"
    /\ \E point_name \in {"P1", UnknownPoint}, steps \in 0..MaxSteps,
       external_data \in ExternalInputs, up \in BOOLEAN :
        \E noise \in [1..steps -> NoiseZ] :
            /\ request' = [point_name |-> point_name, steps |-> steps,
                           external_data |-> external_data, store_up |-> up]
            /\ result' = predict(store, point_name, steps, external_data, up, noise)
            /\ response' = PredictResponse(result')
            /\ UNCHANGED <<storeVars, sweepVars, threadVars, viewVars, seriesVars,
                           agentVars, batchVars>>

NextForecast == Predict

SpecForecast == InitForecast /\ [][NextForecast]_vars

-----------------------------------------------------------------------------
(* The anomaly sweep *)

SweepValues == {5, 100}

\* series on which a score meets a cut point, and the short ones
SweepScenarios ==
    { << >>, <<5, 5, 5>>, <<5, 5, 5, 5, 100>>,
      <<0, 0, 1, 1, 1, 1, 3>>, <<2, 2, 2, 5, 5, 5, 0>> }

InitSweep ==
    /\ store \in {[p \in Points |-> IF p = "P1" THEN s ELSE r] :
                     s \in SeqsUpTo(SweepValues, MaxReadings), r \in SweepScenarios}
    /\ nOld \in {[p \in Points |-> IF p = "P1" THEN k ELSE 0] : k \in 0..MaxReadings}
    /\ nOld["P1"] <= Len(store["P1"])
    /\ corrupt = {}
    /\ ForecastIdle
    /\ SweepIdle
    /\ ThreadsIdle
    /\ ViewsIdle
    /\ SeriesIdle
    /\ AgentIdle
    /\ BatchIdle

\* one GET /api/anomaly_detection
DetectAnomalies ==
    /\ sweep.status = "none"
    /\ \E dbUp \in BOOLEAN, aiUp \in [Points -> BOOLEAN] :
        /\ sweep' = detect_anomalies(store, nOld, corrupt, dbUp, aiUp)
        /\ reads' = SweepReads(store, nOld, corrupt, dbUp)
        /\ UNCHANGED realtime
        /\ UNCHANGED <<storeVars, predictVars, threadVars, viewVars, seriesVars, agentVars,
                       batchVars>>

NextSweep == DetectAnomalies

SpecSweep == InitSweep /\ [][NextSweep]_vars

\* The sweep the bulk read replaced: every point is scored from the series
\* its own read returns (the newest SweepWindow rows of the point; a
\* per-point read has no cutoff), with the same statistics and the same
\* ladder.
PerPointScore(st, p, up) ==
    LET w == get_point_data(st, p, SweepWindow, TRUE)
        stats_score == StatsScore(w)
        info == predict_current(st, p, up)
        final_score == FinalScore(stats_score, AiScore(info))
    IN  IF TooFewRows(w)
        THEN [scored |-> FALSE]
        ELSE [ scored |-> TRUE,
               point_name |-> p,
               current_value |-> w[Len(w)],
               stats_score |-> stats_score,
               ai_available |-> info.available,
               ai_score |-> AiScore(info),
               z_score |-> final_score,
               severity |-> Severity(final_score) ]
PerPointSweep(st, aiUp) == [p \in Points |-> PerPointScore(st, p, aiUp[p])]

\* the verdicts of a sweep as a set: which point got which severity
VerdictSet(locals) ==
    { <<p, locals[p].severity>> :
        p \in {q \in Points : locals[q].scored /\ locals[q].severity # "none"} }

-----------------------------------------------------------------------------
(* The realtime status view: get_realtime_status *)

\* the status of one point (lines 411-436): pt_vals are all its rows of the
\* batch, oldest first; predict_current is not called
PointStatusWithModel(st, old, p) ==
    LET pt_vals == RecentRows(st, old, p)
        z == FinalScore(StatsScore(pt_vals), AiScore(predict_current(st, p, TRUE)))
    IN  IF Len(pt_vals) = 0 THEN "offline"
        ELSE IF Len(pt_vals) >= MinObservations /\ Exceeds(z, 3, 1) THEN "danger"
        ELSE IF Len(pt_vals) >= MinObservations /\ Exceeds(z, 3, 2) THEN "warning"
        ELSE "normal"
PointStatus(st, old, p) ==
    LET pt_vals == RecentRows(st, old, p)
    IN  IF Len(pt_vals) = 0 THEN "offline"
        ELSE IF Len(pt_vals) >= MinObservations
        THEN LET z == StatsScore(pt_vals)
             IN  IF Exceeds(z, 3, 1) THEN "danger"
                 ELSE IF Exceeds(z, 3, 2) THEN "warning"
                 ELSE "normal"
        ELSE "normal"

\* GET /api/realtime_status in Supabase mode: one entry per row of
\* monitoring_points, in the order of that table; value is 0 for an offline
\* point, else the latest reading.  A query that raises, or a value that is
\* not a number, ends in the outer except (500).
get_realtime_status(st, old, bad, dbUp) ==
    IF ~dbUp
    THEN [status |-> "error", error |-> "store unreachable"]
    ELSE IF bad # {}
    THEN [status |-> "error", error |-> "unable to parse value"]
    ELSE [ status |-> "ok",
           data |-> [ i \in 1..Len(PointOrder) |->
                        LET p == PointOrder[i]
                            pt_vals == RecentRows(st, old, p)
                        IN  [ name |-> p,
                              value |-> IF Len(pt_vals) = 0 THEN 0
                                        ELSE pt_vals[Len(pt_vals)],
                              status |-> PointStatus(st, old, p) ] ] ]

\* the two queries of the handler (lines 385, 392-396)
StatusReads(dbUp) == IF dbUp THEN BulkReads ELSE 1

\* series for the status view: short ones, a constant one, one whose z is
\* exactly 1.5, and one of 11 readings whose z exceeds 3
StatusScenarios ==
    { << >>, <<5, 100>>, <<5, 5, 5, 5, 5>>, <<5, 5, 5, 5, 100>>,
      <<2, 2, 2, 5, 5, 5, 0>>,
      <<5, 5, 5, 5, 5, 5, 5, 5, 5, 5, 100>> }

InitStatus ==
    /\ store \in {[p \in Points |-> IF p = "P1" THEN s ELSE r] :
                     s \in SeqsUpTo(SweepValues, MaxReadings), r \in StatusScenarios}
    /\ nOld \in {[p \in Points |-> IF p = "P1" THEN k ELSE 0] : k \in 0..MaxReadings}
    /\ nOld["P1"] <= Len(store["P1"])
    /\ corrupt = {}
    /\ ForecastIdle
    /\ SweepIdle
    /\ ThreadsIdle
    /\ ViewsIdle
    /\ SeriesIdle
    /\ AgentIdle
    /\ BatchIdle

\* one GET /api/realtime_status
GetRealtimeStatus ==
    /\ realtime.status = "none"
    /\ \E dbUp \in BOOLEAN :
        /\ realtime' = get_realtime_status(store, nOld, corrupt, dbUp)
        /\ reads' = StatusReads(dbUp)
    /\ UNCHANGED <<sweep, storeVars, predictVars, threadVars, viewVars, seriesVars,
                   agentVars, batchVars>>

NextStatus == GetRealtimeStatus

SpecStatus == InitStatus /\ [][NextStatus]_vars

-----------------------------------------------------------------------------
(* DataProcessor.get_point_data over rows that carry their timestamps.      *)
(* `readings` holds the rows of one point in the order they were inserted;  *)
(* a row is [t |-> measured_at, v |-> value], its position is its id.       *)

TimeStamps == 1..3
RowValues == {5, 100}
Row == [t : TimeStamps, v : RowValues]

\* the orders in which a set of row ids can be listed
Orders(ids) ==
    {f \in [1..Cardinality(ids) -> ids] : \A i, j \in DOMAIN f : i # j => f[i] # f[j]}

\* .order('measured_at', desc=True).limit(limit).execute(): the ids of
\* res.data.  Rows of equal measured_at come in an order the store chooses.
QueryResults(tbl, limit) ==
    { SubSeq(f, 1, IF limit < Len(f) THEN limit ELSE Len(f)) :
        f \in {g \in Orders(DOMAIN tbl) :
                  \A i, j \in DOMAIN g : i < j => tbl[g[i]].t >= tbl[g[j]].t} }

\* df.sort_values('measure_time'): ascending; the default sort is not
\* stable, rows of equal measure_time may come out in any order
SortedFramesUnsorted(tbl, res) == {res}
SortedFrames(tbl, res) ==
    { [i \in 1..Len(res) |-> res[g[i]]] :
        g \in {h \in Orders(DOMAIN res) :
                  \A i, j \in DOMAIN h : i < j => tbl[res[h[i]]].t <= tbl[res[h[j]]].t} }

\* the frames get_point_data(point_name, limit) can return for a known
\* point: empty when the query raises or finds nothing, else the sorted
\* rows, each with its id
PointFrames(tbl, limit, up) ==
    IF ~up \/ Len(tbl) = 0 THEN { << >> }
    ELSE { [i \in 1..Len(df) |-> [id |-> df[i], t |-> tbl[df[i]].t, v |-> tbl[df[i]].v]] :
             df \in UNION {SortedFrames(tbl, res) : res \in QueryResults(tbl, limit)} }

InitSeries ==
    /\ readings \in SeqsUpTo(Row, MaxRows)
    /\ frame = NoResult
    /\ store = [p \in Points |-> << >>]
    /\ nOld = [p \in Points |-> 0]
    /\ corrupt = {}
    /\ ForecastIdle
    /\ SweepIdle
    /\ ThreadsIdle
    /\ ViewsIdle
    /\ AgentIdle
    /\ BatchIdle

\* one call get_point_data(point_name, limit) for the point of `readings`
GetPointData ==
    /\ frame.status = "none"
    /\ \E limit \in 1..MaxLimit, up \in BOOLEAN :
        \E df \in PointFrames(readings, limit, up) :
            frame' = [status |-> "ok", limit |-> limit, up |-> up, rows |-> df]
    /\ UNCHANGED <<readings, storeVars, predictVars, sweepVars, threadVars, viewVars,
                   agentVars, batchVars>>

NextSeries == GetPointData

SpecSeries == InitSeries /\ [][NextSeries]_vars

-----------------------------------------------------------------------------
(* AIAnalyzer.ask_agent and the session memory.  A text is a sequence of    *)
(* tokens; the chat model answers <<"c1", "c2">>, in stream mode as the two  *)
(* chunks <<"c1">> and <<"c2">>.  SESSION_MEMORY is the list kept for one    *)
(* session id; `session` tells whether the caller passed that id.           *)

Queries == {"q1", "q2"}
Answer == <<"c1", "c2">>
Chunks == << <<"c1">>, <<"c2">> >>

\* err_msg = f"智能体思考出错: {str(e)}"
err_msg == <<"err">>

\* where the chat model can fail: not at all, in
\* client.chat.completions.create (line 220), or while the chunks of an
\* opened stream are read (line 250)
Failures == {"none", "call", "stream"}

\* _update_memory: the user entry, then the assistant entry
update_memory(memory, query, assistant_answer) ==
    memory \o << [role |-> "user", content |-> <<query, "[image]">>],
                 [role |-> "assistant", content |-> assistant_answer] >>

\* the except branch of ask_agent (lines 237-245)
OnCallFailureRemembered(memory, query, session, stream) ==
    [ answer |-> IF stream THEN << >> ELSE err_msg,
      chunks |-> IF stream THEN <<err_msg>> ELSE << >>,
      raised |-> FALSE,
      memory |-> IF session THEN update_memory(memory, query, err_msg) ELSE memory ]
OnCallFailure(memory, query, session, stream) ==
    [ answer |-> IF stream THEN << >> ELSE err_msg,
      chunks |-> IF stream THEN <<err_msg>> ELSE << >>,
      raised |-> FALSE,
      memory |-> memory ]

\* _handle_stream, read to its end by the caller: the chunks are yielded one
\* by one and the memory is updated after the last; an exception while the
\* chunks are read leaves the generator, outside the try of ask_agent
handle_stream(memory, query, session, fail) ==
    IF fail = "stream"
    THEN [ answer |-> << >>, chunks |-> SubSeq(Chunks, 1, 1), raised |-> TRUE,
           memory |-> memory ]
    ELSE [ answer |-> << >>, chunks |-> Chunks, raised |-> FALSE,
           memory |-> IF session
                      THEN update_memory(memory, query, Chunks[1] \o Chunks[2])
                      ELSE memory ]

\* ask_agent(query, None, context, session_id, stream): what the caller gets
\* (answer: the returned string; chunks: what the returned generator
\* yields; raised: it raised while being read) and the memory afterwards;
\* history is the part of the memory sent along with the question, messages
\* the whole list sent to the chat model (lines 187-216; the handlers pass
\* the cached context, a text that is never empty)
ask_agent(memory, query, session, stream, fail) ==
    LET history == IF session THEN LastN(memory, HistoryWindow) ELSE << >>
        messages == << [role |-> "system", content |-> <<"prompt">>] >>
                    \o history
                    \o << [role |-> "system", content |-> <<"context">>],
                          [role |-> "user", content |-> <<query>>] >>
        out == IF fail = "call" THEN OnCallFailure(memory, query, session, stream)
               ELSE IF stream THEN handle_stream(memory, query, session, fail)
               ELSE [ answer |-> Answer, chunks |-> << >>, raised |-> FALSE,
                      memory |-> IF session THEN update_memory(memory, query, Answer)
                                 ELSE memory ]
    IN  [ reply |-> [ status |-> "returned", query |-> query, session |-> session,
                      stream |-> stream, fail |-> fail, history |-> history,
                      messages |-> messages,
                      answer |-> out.answer, chunks |-> out.chunks,
                      raised |-> out.raised ],
          memory |-> out.memory ]

InitAgent ==
    /\ SESSION_MEMORY = << >>
    /\ reply = NoResult
    /\ store = [p \in Points |-> << >>]
    /\ nOld = [p \in Points |-> 0]
    /\ corrupt = {}
    /\ ForecastIdle
    /\ SweepIdle
    /\ ThreadsIdle
    /\ ViewsIdle
    /\ SeriesIdle
    /\ BatchIdle

\* one call of ask_agent; only a stream can fail while it is read
AskAgent ==
    /\ Len(SESSION_MEMORY) + 2 <= MaxMemory
    /\ \E query \in Queries, session \in BOOLEAN, stream \in BOOLEAN, fail \in Failures :
        /\ fail = "stream" => stream
        /\ LET r == ask_agent(SESSION_MEMORY, query, session, stream, fail)
           IN  /\ reply' = r.reply
               /\ SESSION_MEMORY' = r.memory
    /\ UNCHANGED <<storeVars, predictVars, sweepVars, threadVars, viewVars, seriesVars,
                   batchVars>>

NextAgent == AskAgent

SpecAgent == InitAgent /\ [][NextAgent]_vars

-----------------------------------------------------------------------------
(* The batch endpoints: /api/batch_predict and /api/batch_train_and_store.  *)
(* read_up[name]: the series read of predict for that name succeeds;        *)
(* upsert_up[name]: the upsert into `predictions` for that name succeeds.   *)

\* 'error' in pred.predict(name, ...): predict catches what goes wrong and
\* returns {'error': ...}; it never raises
PredictFails(st, name, read_up) ==
    InsufficientData(PredictFrame(st, name, NoExternal, read_up[name]))

\* the loop of batch_predict (lines 295-296): results[point_name] = ...
RECURSIVE predict_loop(_, _, _, _)
predict_loop(st, point_names, read_up, results) ==
    IF point_names = << >> THEN results
    ELSE LET name == Head(point_names)
             res == IF PredictFails(st, name, read_up) THEN "error" ELSE "forecast"
         IN  predict_loop(st, Tail(point_names), read_up,
                          [n \in DOMAIN results \cup {name} |->
                              IF n = name THEN res ELSE results[n]])

\* POST /api/batch_predict
batch_predict(st, point_names, read_up) ==
    IF point_names = << >>
    THEN [status |-> "sent", endpoint |-> "batch_predict", code |-> 400,
          success |-> FALSE]
    ELSE [status |-> "sent", endpoint |-> "batch_predict", code |-> 200,
          success |-> TRUE,
          data |-> predict_loop(st, point_names, read_up, << >>)]

\* the loop of batch_train_store (lines 796-823): a point whose forecast
\* holds an error is passed over, an exception of the upsert is caught, and
\* success_count is raised after the upsert; acc holds success_count and
\* the names in `predictions`
RECURSIVE train_loopStopsAtFailure(_, _, _, _, _)
RECURSIVE train_loop(_, _, _, _, _)
train_loopStopsAtFailure(st, point_names, read_up, upsert_up, acc) ==
    IF point_names = << >> THEN acc
    ELSE LET name == Head(point_names)
         IN  IF PredictFails(st, name, read_up) \/ ~upsert_up[name]
             THEN acc
             ELSE train_loopStopsAtFailure(st, Tail(point_names), read_up, upsert_up,
                     [success_count |-> acc.success_count + 1,
                      table |-> acc.table \cup {name}])
train_loop(st, point_names, read_up, upsert_up, acc) ==
    IF point_names = << >> THEN acc
    ELSE LET name == Head(point_names)
         IN  IF PredictFails(st, name, read_up) \/ ~upsert_up[name]
             THEN train_loop(st, Tail(point_names), read_up, upsert_up, acc)
             ELSE train_loop(st, Tail(point_names), read_up, upsert_up,
                     [success_count |-> acc.success_count + 1,
                      table |-> acc.table \cup {name}])

\* POST /api/batch_train_and_store: the names are those of
\* get_points_with_types()
batch_train_store(st, table, read_up, upsert_up) ==
    LET point_names == PointOrder
        done == train_loop(st, point_names, read_up, upsert_up,
                           [success_count |-> 0, table |-> table])
    IN  [ response |-> [status |-> "sent", endpoint |-> "batch_train_and_store",
                        code |-> 200, success |-> TRUE,
                        total_points |-> Len(point_names),
                        success_count |-> done.success_count],
          table |-> done.table ]

BatchScenarios == { << >>, <<1, 2, 3>>, <<1, 2, 3, 4, 5>> }

\* bodies of /api/batch_predict: lists of names, known or not
BatchNames == SeqsUpTo(PointNames, MaxBatch)

InitBatch ==
    /\ store \in [Points -> BatchScenarios]
    /\ nOld = [p \in Points |-> 0]
    /\ corrupt = {}
    /\ predictions_table \in SUBSET Points
    /\ batch = NoResult
    /\ ForecastIdle
    /\ SweepIdle
    /\ ThreadsIdle
    /\ ViewsIdle
    /\ SeriesIdle
    /\ AgentIdle

\* one POST /api/batch_predict; the request is kept with the answer
BatchPredict ==
    /\ batch.status = "none"
    /\ \E point_names \in BatchNames, read_up \in [PointNames -> BOOLEAN] :
        batch' = [ request |-> [point_names |-> point_names, read_up |-> read_up,
                                upsert_up |-> [n \in PointNames |-> TRUE]] ]
                 @@ batch_predict(store, point_names, read_up)
    /\ UNCHANGED <<predictions_table, storeVars, predictVars, sweepVars,
                   threadVars, viewVars, seriesVars, agentVars>>

\* one POST /api/batch_train_and_store
BatchTrainStore ==
    /\ batch.status = "none"
    /\ \E read_up \in [PointNames -> BOOLEAN], upsert_up \in [PointNames -> BOOLEAN] :
        LET r == batch_train_store(store, predictions_table, read_up, upsert_up)
        IN  /\ batch' = [ request |-> [point_names |-> PointOrder, read_up |-> read_up,
                                       upsert_up |-> upsert_up] ] @@ r.response
            /\ predictions_table' = r.table
    /\ UNCHANGED <<storeVars, predictVars, sweepVars, threadVars, viewVars, seriesVars,
                   agentVars>>

NextBatch == BatchPredict \/ BatchTrainStore

SpecBatch == InitBatch /\ [][NextBatch]_vars

-----------------------------------------------------------------------------
(* Forecast and scoring requests one after the other, in any order: a       *)
(* forecast, an anomaly sweep (which calls predict_current for every point  *)
(* it scores) and a status request over the same store.                     *)

ReadOnlyScenarios ==
    { << >>, <<1, 2, 3>>, <<1, 2, 3, 4, 5>>, <<0, 0, 1, 1, 1, 1, 3>> }

InitReadOnly ==
    /\ store \in [Points -> ReadOnlyScenarios]
    /\ nOld = [p \in Points |-> 0]
    /\ corrupt = {}
    /\ ForecastIdle
    /\ SweepIdle
    /\ ThreadsIdle
    /\ ViewsIdle
    /\ SeriesIdle
    /\ AgentIdle
    /\ BatchIdle

NextReadOnly == Predict \/ DetectAnomalies \/ GetRealtimeStatus

SpecReadOnly == InitReadOnly /\ [][NextReadOnly]_vars

-----------------------------------------------------------------------------
(* The anomaly sweep over points with a long history: readings older than   *)
(* the cutoff are missing from the bulk read but not from the read that     *)
(* predict_current makes.                                                   *)

\* a level that changed for good, and a constant series
HistoryScenarios ==
    { <<1, 1, 1, 1, 1, 1, 1, 1, 1, 1, 1, 1, 0, 0, 0, 0, 0>>,
      <<10, 10, 10, 10, 10, 10>> }

InitSweepHistory ==
    /\ \E s \in HistoryScenarios, r \in SweepScenarios :
      \E k \in 0..Len(s) :
        /\ store = [p \in Points |-> IF p = "P1" THEN s ELSE r]
        /\ nOld = [p \in Points |-> IF p = "P1" THEN k ELSE 0]
    /\ corrupt = {}
    /\ ForecastIdle
    /\ SweepIdle
    /\ ThreadsIdle
    /\ ViewsIdle
    /\ SeriesIdle
    /\ AgentIdle
    /\ BatchIdle

NextSweepHistory == DetectAnomalies

SpecSweepHistory == InitSweepHistory /\ [][NextSweepHistory]_vars

-----------------------------------------------------------------------------
(* The spot check of generate_rag_context (Supabase branch) *)

\* order('measured_at', desc=True).limit(5): the newest readings, newest first
v_list(st, p) ==
    LET tail == LastN(st[p], SpotLimit)
    IN [i \in 1..Len(tail) |-> tail[Len(tail) + 1 - i]]

\* len(v) * (latest_v - mean_v), with latest_v = v_list[0]
SpotDeviation(v) == Len(v) * v[1] - Sum(v)

\* len(v)^2 * np.std(v_list)^2 (population variance)
SpotSpread(v) == Len(v) * SumSq(v) - Sum(v) * Sum(v)

\* std_v > 0 and abs(latest_v - mean_v) / std_v > 2.0, in exact arithmetic
BeyondThreshold(v) ==
    /\ SpotSpread(v) > 0
    /\ SpotDeviation(v) * SpotDeviation(v)
         > SpotThreshold * SpotThreshold * SpotSpread(v)

\* the exact ratio equals the threshold
AtThreshold(v) ==
    /\ SpotSpread(v) > 0
    /\ SpotDeviation(v) * SpotDeviation(v)
         = SpotThreshold * SpotThreshold * SpotSpread(v)

\* The test of one point.  The code compares binary floating-point numbers:
\* when the exact ratio is 2.0 the computed quotient is 2.0 for some readings
\* (1, 0, 0, 0, 0) and the next double above it, 2.0000000000000004, for
\* others (2, 5, 5, 5, 5), so at the threshold both outcomes occur; rounded_up
\* says which one.
SpotListed(v, rounded_up) ==
    IF Len(v) < SpotMin THEN FALSE
    ELSE BeyondThreshold(v) \/ (AtThreshold(v) /\ rounded_up)

\* The anomaly part of the context: the points listed and the status line.
\* The loop stops after 11 checked points; Points holds fewer.
generate_rag_context(st, rounded_up) ==
    LET anomalies == {p \in Points : SpotListed(v_list(st, p), rounded_up[p])}
    IN [status |-> "returned",
        checked |-> {p \in Points : Len(v_list(st, p)) >= SpotMin},
        anomalies |-> anomalies,
        status_desc |-> IF anomalies # {} THEN "at risk" ELSE "normal"]

\* readings of the spot-checked point
SpotValues == {2, 5, 100}

InitContext ==
    /\ store \in {[p \in Points |-> IF p = "P1" THEN s ELSE r] :
                     s \in SeqsUpTo(SpotValues, MaxSpot),
                     r \in {<<5, 5>>, <<1, 0, 0, 0, 0>>}}
    /\ nOld = [p \in Points |-> 0]
    /\ corrupt = {}
    /\ ForecastIdle
    /\ SweepIdle
    /\ ThreadsIdle
    /\ ViewsIdle
    /\ SeriesIdle
    /\ AgentIdle
    /\ BatchIdle

\* one call of generate_rag_context()
GenerateRagContext ==
    /\ rag.status = "none"
    /\ \E rounded_up \in [Points -> BOOLEAN] :
           rag' = generate_rag_context(store, rounded_up)
    /\ UNCHANGED <<report, sse, session_present, storeVars, predictVars,
                   sweepVars, threadVars, seriesVars, agentVars, batchVars>>

NextContext == GenerateRagContext

SpecContext == InitContext /\ [][NextContext]_vars

-----------------------------------------------------------------------------
(* The handler of POST /api/predict *)

\* a row of recent_history; numeric tells whether pd.to_numeric accepts its value
HistoryRow(v) == [value |-> v, numeric |-> TRUE]
BadRow == [value |-> 0, numeric |-> FALSE]

\* DataProcessor.process_point_history: the frame of the rows, or None when
\* the conversion of a column raises
process_point_history(history) ==
    IF \A i \in DOMAIN history : history[i].numeric
    THEN External([i \in DOMAIN history |-> history[i].value])
    ELSE NoExternal

\* external_data as the handler hands it to predict (lines 247-269)
RequestExternal(recent_history) ==
    IF Len(recent_history) > 0
    THEN process_point_history(recent_history)
    ELSE NoExternal

\* number of queries predict sends to the store (lines 34-37)
PredictReads(external_data) ==
    IF external_data.given /\ Len(external_data.rows) > 0 THEN 0 ELSE 1

\* bodies of recent_history: absent or empty, rows that do not parse, and
\* rows that parse (too few for a forecast, and enough)
RecentHistories ==
    { << >>,
      <<BadRow>>,
      <<HistoryRow(3), HistoryRow(1), HistoryRow(4), BadRow, HistoryRow(5), HistoryRow(9)>>,
      <<HistoryRow(2), HistoryRow(4)>>,
      <<HistoryRow(3), HistoryRow(1), HistoryRow(4), HistoryRow(1), HistoryRow(5),
        HistoryRow(9)>> }

\* stored series of the point
ApiSeries == { << >>, <<1, 2, 3>>, <<1, 2, 3, 4, 5>>, <<10, 10, 10, 10, 10>> }

InitPredictApi ==
    /\ store \in {[p \in Points |-> IF p = "P1" THEN s ELSE << >>] : s \in ApiSeries}
    /\ nOld = [p \in Points |-> 0]
    /\ corrupt = {}
    /\ ForecastIdle
    /\ SweepIdle
    /\ ThreadsIdle
    /\ ViewsIdle
    /\ SeriesIdle
    /\ AgentIdle
    /\ BatchIdle

\* one POST /api/predict with a JSON body; a body without point_name is
\* answered 400 before the predictor is used
PredictRequest ==
    /\ response.status = "none"
    /\ \E point_name \in {"", "P1", UnknownPoint}, steps \in 0..MaxSteps,
          recent_history \in RecentHistories, up \in BOOLEAN :
        \E noise \in [1..steps -> NoiseZ] :
            /\ request' = [point_name |-> point_name, steps |-> steps,
                           recent_history |-> recent_history,
                           external_data |-> RequestExternal(recent_history),
                           store_up |-> up, noise |-> noise]
            /\ IF point_name = ""
               THEN /\ response' = [status |-> "sent", code |-> 400, success |-> FALSE,
                                    error |-> "point_name is required"]
                    /\ UNCHANGED <<result, reads>>
               ELSE /\ result' = predict(store, point_name, steps,
                                         RequestExternal(recent_history), up, noise)
                    /\ response' = PredictResponse(result')
                    /\ reads' = PredictReads(RequestExternal(recent_history))
            /\ UNCHANGED <<sweep, realtime, storeVars, threadVars, viewVars,
                           seriesVars, agentVars, batchVars>>

NextPredictApi == PredictRequest

SpecPredictApi == InitPredictApi /\ [][NextPredictApi]_vars

-----------------------------------------------------------------------------
(* Concurrent ask_agent calls on one session id.  Flask serves each request *)
(* on its own thread and SESSION_MEMORY is a module-level dict without a    *)
(* lock, so the statements of ask_agent and _update_memory interleave.      *)
(* Thread t asks the question t; pc[t] is the statement it is at and        *)
(* kind[t] the handler that called ask_agent.                               *)

\* what the statements below leave alone
memoryFrame == <<rag, report, sse, seriesVars, batchVars, storeVars, predictVars,
                 sweepVars, reply, predictor, instances, loaded, CONTEXT_CACHE,
                 generations, got, context>>

\* SESSION_MEMORY[session_id].append({"role": "user", ...}) (line 272)
UserEntry(query) == [role |-> "user", content |-> <<query, "[image]">>]

\* SESSION_MEMORY[session_id].append({"role": "assistant", ...}) (line 273)
AssistantEntry(assistant_answer) == [role |-> "assistant", content |-> assistant_answer]

InitMemory ==
    /\ SESSION_MEMORY = << >>
    /\ reply = NoResult
    /\ store = [p \in Points |-> << >>]
    /\ nOld = [p \in Points |-> 0]
    /\ corrupt = {}
    /\ ForecastIdle
    /\ SweepIdle
    /\ ThreadsIdle
    /\ ViewsIdle
    /\ SeriesIdle
    /\ BatchIdle

\* a request with the session id arrives at /api/ask_agent or
\* /api/ask_agent_stream and ask_agent is entered
AgentStart(t) ==
    /\ pc[t] = "idle"
    /\ \E k \in {"ask_agent", "ask_agent_stream"} : kind' = [kind EXCEPT ![t] = k]
    /\ pc' = [pc EXCEPT ![t] = "hist_check"]
    /\ UNCHANGED <<memoryFrame, SESSION_MEMORY, session_present>>

\* if session_id not in SESSION_MEMORY: (line 191)
HistCheck(t) ==
    /\ pc[t] = "hist_check"
    /\ pc' = [pc EXCEPT ![t] = IF session_present THEN "call" ELSE "hist_create"]
    /\ UNCHANGED <<memoryFrame, SESSION_MEMORY, session_present, kind>>

\* SESSION_MEMORY[session_id] = [] (line 192)
HistCreate(t) ==
    /\ pc[t] = "hist_create"
    /\ SESSION_MEMORY' = << >>
    /\ session_present' = TRUE
    /\ pc' = [pc EXCEPT ![t] = "call"]
    /\ UNCHANGED <<memoryFrame, kind>>

\* the chat model answers (lines 220-230; for a stream, all chunks have been
\* read, line 250), or the call fails and nothing is remembered
ChatCall(t) ==
    /\ pc[t] = "call"
    /\ \E fail \in BOOLEAN :
           pc' = [pc EXCEPT ![t] = IF fail THEN "failed" ELSE "mem_check"]
    /\ UNCHANGED <<memoryFrame, SESSION_MEMORY, session_present, kind>>

\* _update_memory, lines 262-263: the key is there since line 192 and is
\* never removed
MemCheck(t) ==
    /\ pc[t] = "mem_check"
    /\ SESSION_MEMORY' = IF session_present THEN SESSION_MEMORY ELSE << >>
    /\ session_present' = TRUE
    /\ pc' = [pc EXCEPT ![t] = "mem_user"]
    /\ UNCHANGED <<memoryFrame, kind>>

\* line 272
MemUser(t) ==
    /\ pc[t] = "mem_user"
    /\ SESSION_MEMORY' = Append(SESSION_MEMORY, UserEntry(t))
    /\ pc' = [pc EXCEPT ![t] = "mem_assistant"]
    /\ UNCHANGED <<memoryFrame, session_present, kind>>

\* line 273
MemAssistant(t) ==
    /\ pc[t] = "mem_assistant"
    /\ SESSION_MEMORY' = Append(SESSION_MEMORY, AssistantEntry(Answer))
    /\ pc' = [pc EXCEPT ![t] = "done"]
    /\ UNCHANGED <<memoryFrame, session_present, kind>>

NextMemory ==
    \E t \in Threads :
        \/ AgentStart(t)
        \/ HistCheck(t)
        \/ HistCreate(t)
        \/ ChatCall(t)
        \/ MemCheck(t)
        \/ MemUser(t)
        \/ MemAssistant(t)

SpecMemory == InitMemory /\ [][NextMemory]_vars

-----------------------------------------------------------------------------
(* The handler of POST /api/ask_agent_stream *)

\* generate(): one content event per chunk of the generator ask_agent
\* returned, then the end marker, or the error event when reading the
\* generator raised (lines 754-774); r is what ask_agent handed back
\* (first the same generator, were the end marker sent after the try block)
generateDoneAfterError(r) ==
    [i \in DOMAIN r.chunks |-> [event |-> "content", content |-> r.chunks[i], done |-> FALSE]]
    \o (IF r.raised THEN << [event |-> "error", content |-> << >>, done |-> FALSE] >>
        ELSE << >>)
    \o << [event |-> "content", content |-> << >>, done |-> TRUE] >>
generate(r) ==
    [i \in DOMAIN r.chunks |-> [event |-> "content", content |-> r.chunks[i], done |-> FALSE]]
    \o (IF r.raised
        THEN << [event |-> "error", content |-> << >>, done |-> FALSE] >>
        ELSE << [event |-> "content", content |-> << >>, done |-> TRUE] >>)

\* one POST /api/ask_agent_stream (the body carries no image): a body without
\* a question is answered 400 as JSON, any other as an event stream that the
\* client reads to its end
AskAgentStream ==
    /\ Len(SESSION_MEMORY) + 2 <= MaxMemory
    /\ \E query \in Queries \cup {""}, session \in BOOLEAN, fail \in Failures :
        IF query = ""
        THEN /\ sse' = [status |-> "refused", code |-> 400, events |-> << >>]
             /\ UNCHANGED <<SESSION_MEMORY, reply>>
        ELSE LET r == ask_agent(SESSION_MEMORY, query, session, TRUE, fail)
             IN  /\ reply' = r.reply
                 /\ SESSION_MEMORY' = r.memory
                 /\ sse' = [status |-> "sent", code |-> 200, events |-> generate(r.reply)]
    /\ UNCHANGED <<rag, report, session_present, storeVars, predictVars, sweepVars,
                   threadVars, seriesVars, batchVars>>

NextStream == AskAgentStream

SpecStream == InitAgent /\ [][NextStream]_vars

-----------------------------------------------------------------------------
(* GET /api/ai_anomaly_report and the frame DataProcessor keeps in memory *)

\* self.processed_data = None (DataProcessor.__init__)
NoFrame == [is_frame |-> FALSE, columns |-> {}, series |-> << >>]

\* pd.DataFrame(): a frame without columns or rows
EmptyFrame == [is_frame |-> TRUE, columns |-> {}, series |-> << >>]

\* DataProcessor.load_data: in Supabase mode only the metadata of the points
\* is cached; the CSV branch stores an empty frame
load_data(data_source, processed_data) ==
    IF data_source = "supabase" THEN processed_data ELSE EmptyFrame

\* processed_data of the predictor get_predictor hands out:
\* FusionPredictor(DATA_DIR, MODEL_DIR, data_source='supabase'), then load_data()
PredictorData == load_data("supabase", NoFrame)

\* the loop of ai_anomaly_report over the points of a frame (lines 657-678)
ReportAnomalies(df) ==
    { [point_name |-> p, severity |-> Severity(StatsScore(df.series[p]))] :
        p \in { q \in DOMAIN df.series :
                   /\ ~TooFewRows(df.series[q])
                   /\ Severity(StatsScore(df.series[q])) # "none" } }

\* the answer of the handler: df['point_name'] raises when df is None or has
\* no such column, and the outer except answers 500
ai_anomaly_report(df) ==
    IF ~df.is_frame \/ "point_name" \notin df.columns
    THEN [status |-> "sent", code |-> 500, success |-> FALSE, anomalies |-> {}]
    ELSE [status |-> "sent", code |-> 200, success |-> TRUE,
          anomalies |-> ReportAnomalies(df)]

\* one GET /api/ai_anomaly_report
AiAnomalyReport ==
    /\ report.status = "none"
    /\ report' = ai_anomaly_report(PredictorData)
    /\ UNCHANGED <<rag, sse, session_present, storeVars, predictVars, sweepVars,
                   threadVars, seriesVars, agentVars, batchVars>>

NextReport == AiAnomalyReport

SpecReport == InitSweep /\ [][NextReport]_vars

-----------------------------------------------------------------------------
(* The anomaly sweep over a batch that may hold values that are not numbers *)

InitSweepFaults ==
    /\ store \in [Points -> SweepScenarios]
    /\ nOld = [p \in Points |-> 0]
    /\ corrupt \in SUBSET {p \in Points : Len(store[p]) > 0}
    /\ ForecastIdle
    /\ SweepIdle
    /\ ThreadsIdle
    /\ ViewsIdle
    /\ SeriesIdle
    /\ AgentIdle
    /\ BatchIdle

NextSweepFaults == DetectAnomalies

SpecSweepFaults == InitSweepFaults /\ [][NextSweepFaults]_vars

-----------------------------------------------------------------------------
(* Concurrent requests.  Flask serves every request on a thread of its own; *)
(* the globals `predictor` and CONTEXT_CACHE are read and written without a *)
(* lock, so the steps below interleave.                                     *)

RequestKinds == {"data_summary", "ask_agent", "ask_agent_stream"}

InitThreads ==
    /\ store = [p \in Points |-> << >>]
    /\ nOld = [p \in Points |-> 0]
    /\ corrupt = {}
    /\ ForecastIdle
    /\ SweepIdle
    /\ ThreadsIdle
    /\ ViewsIdle
    /\ SeriesIdle
    /\ AgentIdle
    /\ BatchIdle

\* a request arrives: /api/data_summary goes straight to get_predictor(),
\* the two ask_agent handlers first look at CONTEXT_CACHE
Start(t) ==
    /\ pc[t] = "idle"
    /\ \E k \in RequestKinds :
        /\ kind' = [kind EXCEPT ![t] = k]
        /\ pc' = [pc EXCEPT ![t] = IF k = "data_summary" THEN "gp_check" ELSE "ctx_check"]
    /\ got' = [got EXCEPT ![t] = 0]
    /\ context' = [context EXCEPT ![t] = 0]
    /\ UNCHANGED <<viewVars, seriesVars, agentVars, batchVars, storeVars, predictVars, sweepVars, predictor, instances,
                   loaded, CONTEXT_CACHE, generations>>

\* if CONTEXT_CACHE is None: (lines 713, 744); when it is, the handler calls
\* generate_rag_context(), which starts with get_predictor()
CtxCheck(t) ==
    /\ pc[t] = "ctx_check"
    /\ pc' = [pc EXCEPT ![t] = IF CONTEXT_CACHE = 0 THEN "gp_check" ELSE "ctx_read"]
    /\ UNCHANGED <<viewVars, seriesVars, agentVars, batchVars, storeVars, predictVars, sweepVars, predictor, instances,
                   loaded, CONTEXT_CACHE, generations, kind, got, context>>

\* get_predictor: if predictor is None: (line 57)
GpCheck(t) ==
    /\ pc[t] = "gp_check"
    /\ pc' = [pc EXCEPT ![t] = IF predictor = 0 THEN "gp_construct" ELSE "gp_return"]
    /\ UNCHANGED <<viewVars, seriesVars, agentVars, batchVars, storeVars, predictVars, sweepVars, predictor, instances,
                   loaded, CONTEXT_CACHE, generations, kind, got, context>>

\* predictor = FusionPredictor(DATA_DIR, MODEL_DIR, data_source='supabase')
GpConstruct(t) ==
    /\ pc[t] = "gp_construct"
    /\ instances' = instances + 1
    /\ predictor' = instances + 1
    /\ pc' = [pc EXCEPT ![t] = "gp_load"]
    /\ UNCHANGED <<viewVars, seriesVars, agentVars, batchVars, storeVars, predictVars, sweepVars, loaded, CONTEXT_CACHE,
                   generations, kind, got, context>>

\* predictor.load_data(), on the object the global names at that moment
GpLoad(t) ==
    /\ pc[t] = "gp_load"
    /\ loaded' = [loaded EXCEPT ![predictor] = @ + 1]
    /\ pc' = [pc EXCEPT ![t] = "gp_return"]
    /\ UNCHANGED <<viewVars, seriesVars, agentVars, batchVars, storeVars, predictVars, sweepVars, predictor, instances,
                   CONTEXT_CACHE, generations, kind, got, context>>

\* return predictor
GpReturn(t) ==
    /\ pc[t] = "gp_return"
    /\ got' = [got EXCEPT ![t] = predictor]
    /\ pc' = [pc EXCEPT ![t] = IF kind[t] = "data_summary" THEN "done" ELSE "ctx_store"]
    /\ UNCHANGED <<viewVars, seriesVars, agentVars, batchVars, storeVars, predictVars, sweepVars, predictor, instances,
                   loaded, CONTEXT_CACHE, generations, kind, context>>

\* CONTEXT_CACHE = generate_rag_context(): the rest of the generation (it
\* always returns a string) and the assignment; values are numbered in the
\* order they are produced
CtxStore(t) ==
    /\ pc[t] = "ctx_store"
    /\ generations' = generations + 1
    /\ CONTEXT_CACHE' = generations + 1
    /\ pc' = [pc EXCEPT ![t] = "ctx_read"]
    /\ UNCHANGED <<viewVars, seriesVars, agentVars, batchVars, storeVars, predictVars, sweepVars, predictor, instances,
                   loaded, kind, got, context>>

\* context = CONTEXT_CACHE, then the call of the analyzer with it
CtxRead(t) ==
    /\ pc[t] = "ctx_read"
    /\ context' = [context EXCEPT ![t] = CONTEXT_CACHE]
    /\ pc' = [pc EXCEPT ![t] = "done"]
    /\ UNCHANGED <<viewVars, seriesVars, agentVars, batchVars, storeVars, predictVars, sweepVars, predictor, instances,
                   loaded, CONTEXT_CACHE, generations, kind, got>>

\* the response is sent; the thread is free for the next request
Finish(t) ==
    /\ pc[t] = "done"
    /\ pc' = [pc EXCEPT ![t] = "idle"]
    /\ UNCHANGED <<viewVars, seriesVars, agentVars, batchVars, storeVars, predictVars, sweepVars, predictor, instances,
                   loaded, CONTEXT_CACHE, generations, kind, got, context>>

NextThreads ==
    \E t \in Threads :
        \/ Start(t)
        \/ CtxCheck(t)
        \/ GpCheck(t)
        \/ GpConstruct(t)
        \/ GpLoad(t)
        \/ GpReturn(t)
        \/ CtxStore(t)
        \/ CtxRead(t)
        \/ Finish(t)

SpecThreads == InitThreads /\ [][NextThreads]_vars

-----------------------------------------------------------------------------
(* Properties of the forecast (checked under SpecForecast) *)

\* C1: a series of fewer than 5 observations (no observation at all
\* included) makes predict fail with the insufficient-data error, and the
\* value returned carries no predictions and no confidence bounds, whatever
\* steps is.  The series is the caller's recent_history when it is given and
\* not empty, and else the stored readings of the point (none for a name the
\* store does not know).
C1_ShortSeriesFails ==
    LET ext == request.external_data
        series == IF ext.given /\ Len(ext.rows) > 0 THEN ext.rows
                  ELSE IF request.point_name \in DOMAIN store
                       THEN store[request.point_name] ELSE << >>
    IN  (result.status # "none" /\ Len(series) < 5)
            => /\ result.status = "error"
               /\ result.error = "Not enough data"
               /\ DOMAIN result = {"status", "error"}

\* a stored series of 1 to 4 readings was forecast and refused
C1_Witness ==
    /\ result.status = "error"
    /\ ~request.external_data.given
    /\ request.point_name = "P1"
    /\ Len(store["P1"]) \in 1..4

\* C2: whenever a forecast is produced (series of length >= 5),
\* confidence_lower[i] <= predictions[i] <= confidence_upper[i] at every
\* future step i.
C2_BandContainsPrediction ==
    result.status = "ok" =>
        \A i \in 1..request.steps :
            /\ result.confidence_lower[i] <= result.predictions[i]
            /\ result.predictions[i] <= result.confidence_upper[i]

\* a forecast with a band of positive width around every prediction
C2_Witness ==
    /\ result.status = "ok"
    /\ request.steps >= 1
    /\ result.uncertainty_std > 0
    /\ \A i \in 1..request.steps :
            /\ result.confidence_lower[i] < result.predictions[i]
            /\ result.predictions[i] < result.confidence_upper[i]

\* C3 (as claimed): for a series of length >= 5 whose values lie exactly on
\* a straight line (successive differences all equal to some k, k = 0 for a
\* constant series), std_dev = 0, the prediction at future step i is the
\* line continued, last + k * i, and both confidence bounds equal the
\* prediction.
C3_LineIsContinued ==
    LET ext == request.external_data
        series == IF ext.given /\ Len(ext.rows) > 0 THEN ext.rows
                  ELSE store[request.point_name]
        n == Len(series)
        k == series[2] - series[1]
    IN  (result.status = "ok" /\ \A j \in 1..(n - 1) : series[j + 1] - series[j] = k)
            => /\ result.uncertainty_std = 0
               /\ \A i \in 1..request.steps :
                    /\ result.predictions[i] = Scale * (series[n] + k * i)
                    /\ result.confidence_upper[i] = result.predictions[i]
                    /\ result.confidence_lower[i] = result.predictions[i]

\* C4: whenever a forecast is produced, predictions, confidence_upper and
\* confidence_lower each hold exactly `steps` values.
C4_LengthsEqualSteps ==
    result.status = "ok" =>
        /\ Len(result.predictions) = request.steps
        /\ Len(result.confidence_upper) = request.steps
        /\ Len(result.confidence_lower) = request.steps
        /\ DOMAIN result.predictions = 1..request.steps

\* a forecast over more than one step
C4_Witness ==
    /\ result.status = "ok"
    /\ request.steps >= 2
    /\ Len(result.predictions) = request.steps

-----------------------------------------------------------------------------
(* Properties of the anomaly sweep (checked under SpecSweep).  A score is   *)
(* held as the fraction num / den of its square: s > 3 is num > 9 * den,    *)
(* s > 2 is num > 4 * den and s > 1.5 is 4 * num > 9 * den.                 *)

\* C5: in the sweep the severity of a scored point is decided by its
\* combined score alone, with strict cut points: > 3 high, > 2 (and <= 3)
\* medium, > 1.5 (and <= 2) low, <= 1.5 not listed; every listed verdict
\* obeys the same ladder; and a point with a larger combined score never has
\* a lower severity rank.
C5_SeverityLadder ==
    LET Rank(sev) == CASE sev = "none" -> 0 [] sev = "low" -> 1
                       [] sev = "medium" -> 2 [] sev = "high" -> 3
        Ladder(z, sev) ==
            /\ (z.num > 9 * z.den) => sev = "high"
            /\ (z.num > 4 * z.den /\ z.num <= 9 * z.den) => sev = "medium"
            /\ (4 * z.num > 9 * z.den /\ z.num <= 4 * z.den) => sev = "low"
            /\ (4 * z.num <= 9 * z.den) => sev = "none"
    IN  sweep.status = "ok" =>
            /\ \A p \in Points : sweep.locals[p].scored =>
                 /\ Ladder(sweep.locals[p].z_score, sweep.locals[p].severity)
                 /\ (sweep.locals[p].severity = "none") <=>
                        (\A i \in 1..Len(sweep.anomalies) :
                            sweep.anomalies[i].point_name # p)
            /\ \A i \in 1..Len(sweep.anomalies) :
                 /\ sweep.anomalies[i].severity \in {"high", "medium", "low"}
                 /\ Ladder(sweep.anomalies[i].z_score, sweep.anomalies[i].severity)
            /\ \A p, q \in Points :
                 (/\ sweep.locals[p].scored
                  /\ sweep.locals[q].scored
                  /\ sweep.locals[p].z_score.num * sweep.locals[q].z_score.den
                        <= sweep.locals[q].z_score.num * sweep.locals[p].z_score.den)
                    => Rank(sweep.locals[p].severity) <= Rank(sweep.locals[q].severity)

\* one point is graded high and the other has a combined score of exactly 2
\* and is graded low
C5_Witness ==
    /\ sweep.status = "ok"
    /\ \E p, q \in Points :
        /\ sweep.locals[p].scored
        /\ sweep.locals[p].severity = "high"
        /\ sweep.locals[q].scored
        /\ sweep.locals[q].z_score = [num |-> 4, den |-> 1]
        /\ sweep.locals[q].severity = "low"

\* C6: the combined score of a scored point is the larger of stats_score
\* and ai_score when predict_current gave a result, and stats_score alone
\* when it gave none.
C6_CombinedIsMax ==
    sweep.status = "ok" =>
        \A p \in Points : sweep.locals[p].scored =>
            LET v == sweep.locals[p]
                z == v.z_score
                GE(a, b) == a.num * b.den >= b.num * a.den
            IN  IF v.ai_available
                THEN /\ z \in {v.stats_score, v.ai_score}
                     /\ GE(z, v.stats_score)
                     /\ GE(z, v.ai_score)
                ELSE z = v.stats_score

\* one point combines to its model-based score, which is the larger one; the
\* other has no model-based score and keeps a positive stats_score
C6_Witness ==
    /\ sweep.status = "ok"
    /\ \E p, q \in Points :
        /\ sweep.locals[p].scored
        /\ sweep.locals[p].ai_available
        /\ sweep.locals[p].z_score = sweep.locals[p].ai_score
        /\ sweep.locals[p].z_score # sweep.locals[p].stats_score
        /\ sweep.locals[q].scored
        /\ ~sweep.locals[q].ai_available
        /\ sweep.locals[q].z_score.num > 0

\* C7 (as claimed): a point whose readings are exactly [5,5,5,5,100], all
\* newer than the cutoff, is given severity low by the sweep.
C7_ScenarioIsLow ==
    sweep.status = "ok" =>
        \A p \in Points :
            (store[p] = <<5, 5, 5, 5, 100>> /\ nOld[p] = 0)
                => (sweep.locals[p].scored /\ sweep.locals[p].severity = "low")

\* C7 (amended): such a point is given severity medium when predict_current
\* gives a result (stats_score^2 = 16/5, ai_score = 95/38 = 2.5), and low
\* only when it gives none.
C7_ScenarioIsMedium ==
    sweep.status = "ok" =>
        \A p \in Points :
            (store[p] = <<5, 5, 5, 5, 100>> /\ nOld[p] = 0)
                => /\ sweep.locals[p].scored
                   /\ sweep.locals[p].stats_score = [num |-> 16, den |-> 5]
                   /\ sweep.locals[p].ai_available =>
                        /\ sweep.locals[p].ai_score = [num |-> 25, den |-> 4]
                        /\ sweep.locals[p].severity = "medium"
                   /\ ~sweep.locals[p].ai_available =>
                        sweep.locals[p].severity = "low"

\* the scenario point was scored with its model-based score and listed as
\* medium
C7_Witness ==
    /\ sweep.status = "ok"
    /\ store["P2"] = <<5, 5, 5, 5, 100>>
    /\ sweep.locals["P2"].scored
    /\ sweep.locals["P2"].ai_available
    /\ \E i \in 1..Len(sweep.anomalies) :
        /\ sweep.anomalies[i].point_name = "P2"
        /\ sweep.anomalies[i].severity = "medium"

\* C8: a point with fewer than 5 readings newer than the cutoff gets no
\* verdict, whatever its values; it causes no error (the sweep fails only
\* when the store is unreachable); and every point with at least 5 such
\* readings is still scored.
C8_ShortPointsSkipped ==
    /\ sweep.status = "error" => sweep.error = "store unreachable"
    /\ sweep.status = "ok" =>
        \A p \in Points :
            IF Len(store[p]) - nOld[p] < 5
            THEN /\ ~sweep.locals[p].scored
                 /\ \A i \in 1..Len(sweep.anomalies) :
                        sweep.anomalies[i].point_name # p
            ELSE sweep.locals[p].scored

\* a point with 2 to 4 recent readings, among them an outlier, was skipped
\* while the other point was scored and listed
C8_Witness ==
    /\ sweep.status = "ok"
    /\ \E p, q \in Points :
        /\ Len(store[p]) - nOld[p] \in 2..4
        /\ store[p][Len(store[p])] = 100
        /\ store[p][Len(store[p]) - 1] = 5
        /\ ~sweep.locals[p].scored
        /\ sweep.locals[q].scored
        /\ Len(sweep.anomalies) = 1
        /\ sweep.anomalies[1].point_name = q

\* C11 (as claimed): a failure while scoring one point (here: a reading of
\* the point whose value is not a number) omits that point and no other: the
\* sweep still answers with success, and every other point with 5 or more
\* recent readings is scored.  (An unreachable store is no per-point
\* failure and is left out.)  Checked under SpecSweepFaults.
C11_FailureOmitsOnlyThatPoint ==
    sweep.status # "none" =>
        \/ sweep.status = "error" /\ sweep.error = "store unreachable"
        \/ /\ sweep.status = "ok"
           /\ \A p \in corrupt : ~sweep.locals[p].scored
           /\ \A p \in Points \ corrupt :
                 sweep.locals[p].scored <=> Len(RecentRows(store, nOld, p)) >= 5

\* C12 (as claimed): one sweep sends the store no more queries than the
\* bulk reads of the handler, however many points there are to score.
C12_ReadsBounded == reads <= BulkReads

\* C13 (as claimed): the set of verdicts of the bulk sweep equals the set of
\* verdicts obtained by scoring every point from its own series read, the
\* store answering the same reads in both.
C13_BulkEqualsPerPoint ==
    sweep.status = "ok" =>
        \A aiUp \in [Points -> BOOLEAN] :
            sweep = detect_anomalies(store, nOld, corrupt, TRUE, aiUp)
                => VerdictSet(sweep.locals) = VerdictSet(PerPointSweep(store, aiUp))

\* C14: in the response of a sweep the verdicts are listed by non-decreasing
\* severity rank (high, then medium, then low); each by_severity count is
\* the number of listed verdicts of that severity, the three counts sum to
\* total_anomalies, and total_anomalies is the length of the list.
C14_SortedAndCounted ==
    sweep.status = "ok" =>
        LET a == sweep.anomalies
            Count(sev) == Cardinality({i \in 1..Len(a) : a[i].severity = sev})
        IN  /\ \A i, j \in 1..Len(a) :
                  i < j => severity_order[a[i].severity] <= severity_order[a[j].severity]
            /\ sweep.by_severity.high = Count("high")
            /\ sweep.by_severity.medium = Count("medium")
            /\ sweep.by_severity.low = Count("low")
            /\ sweep.by_severity.high + sweep.by_severity.medium
                  + sweep.by_severity.low = sweep.total_anomalies
            /\ sweep.total_anomalies = Len(a)
            /\ \A p \in Points :
                  (sweep.locals[p].scored /\ sweep.locals[p].severity # "none")
                      <=> \E i \in 1..Len(a) : a[i].point_name = p

\* the sort moved a verdict: the point listed first was scored second
C14_Witness ==
    /\ sweep.status = "ok"
    /\ Len(sweep.anomalies) = 2
    /\ sweep.anomalies[1].point_name = "P2"
    /\ sweep.anomalies[1].severity = "medium"
    /\ sweep.anomalies[2].point_name = "P1"
    /\ sweep.anomalies[2].severity = "low"
    /\ sweep.by_severity = [high |-> 0, medium |-> 1, low |-> 1]

-----------------------------------------------------------------------------
(* Properties of the forecast's series read (checked under SpecForecast) *)

\* C16: for a point name the store does not know, get_point_data returns an
\* empty series, whether or not the store answers; predict for that name,
\* given no usable recent_history, fails with the error 'Not enough data'
\* and /api/predict answers 400 with that error.
C16_UnknownPointInsufficient ==
    ( /\ result.status # "none"
      /\ request.point_name = UnknownPoint
      /\ ~(request.external_data.given /\ Len(request.external_data.rows) > 0) )
    => /\ get_point_data(store, request.point_name, PredictLimit, request.store_up) = << >>
       /\ result = NotEnoughData
       /\ response.code = 400
       /\ response.error = "Not enough data"

\* the store answers and holds enough readings of another point
C16_Witness ==
    /\ result = NotEnoughData
    /\ request.point_name = UnknownPoint
    /\ request.store_up
    /\ ~request.external_data.given
    /\ Len(store["P1"]) >= MinObservations

\* C18 (checked under SpecSeries): when the store answers,
\* get_point_data(point_name, limit) returns min(limit, n) of the n rows of
\* the point, each once and unchanged (rows of equal timestamp are all
\* kept); they are the most recent ones: no row left out is newer than a
\* row returned; and they are in ascending order of timestamp.
C18_NewestRowsAscending ==
    (frame.status = "ok" /\ frame.up) =>
        LET df == frame.rows
            ids == {df[i].id : i \in 1..Len(df)}
        IN  /\ Len(df) <= frame.limit
            /\ Len(df) = IF frame.limit < Len(readings) THEN frame.limit
                                                       ELSE Len(readings)
            /\ Cardinality(ids) = Len(df)
            /\ ids \subseteq DOMAIN readings
            /\ \A i \in 1..Len(df) :
                  df[i].t = readings[df[i].id].t /\ df[i].v = readings[df[i].id].v
            /\ \A k \in DOMAIN readings \ ids :
                  \A i \in 1..Len(df) : readings[k].t <= df[i].t
            /\ \A i, j \in 1..Len(df) : i < j => df[i].t <= df[j].t

\* three rows, inserted newest first, two of them with the same timestamp;
\* limit 2 drops the oldest, keeps both others and turns them round
C18_Witness ==
    /\ frame.status = "ok" /\ frame.up /\ frame.limit = 2
    /\ Len(readings) = 3
    /\ readings[1].t = 3 /\ readings[2].t = 2 /\ readings[3].t = 1
    /\ Len(frame.rows) = 2
    /\ frame.rows[1].id = 2 /\ frame.rows[2].id = 1

\* C17 (as claimed): when the store does not answer the series read of a
\* forecast for a known point (and the caller sent no usable
\* recent_history), /api/predict answers with a 5xx status and an error
\* other than the insufficient-data error.
C17_StoreFailureIsServiceLevel ==
    ( /\ result.status # "none"
      /\ ~request.store_up
      /\ request.point_name \in Points
      /\ ~(request.external_data.given /\ Len(request.external_data.rows) > 0) )
    => /\ response.code >= 500
       /\ response.error # NotEnoughData.error

-----------------------------------------------------------------------------
(* Properties of the realtime status view (checked under SpecStatus) *)

\* C15: the status response holds exactly one entry for every known point.
\* Its status is offline exactly when the point has no reading in the
\* batch; otherwise danger when z > 3, warning when 1.5 < z <= 3, and
\* normal else, where z = |latest - mean| / std over the readings of the
\* point in the batch and z counts as 0 with fewer than 5 readings or
\* std = 0.  With n readings, S their sum, Q = n * (sum of squares) - S^2
\* and d = n * latest - S:  z^2 = d^2 (n - 1) / (n Q).  Only the readings of
\* the batch enter, so the model-based score has no part in it.
C15_StatusLadder ==
    realtime.status = "ok" =>
        /\ Len(realtime.data) = Cardinality(Points)
        /\ \A p \in Points :
            /\ Cardinality({i \in 1..Len(realtime.data) : realtime.data[i].name = p}) = 1
            /\ \A i \in 1..Len(realtime.data) :
                 realtime.data[i].name = p =>
                    LET r == RecentRows(store, nOld, p)
                        n == Len(r)
                        S == Sum(r)
                        Q == n * SumSq(r) - S * S
                        d == n * r[n] - S
                        counted == n >= 5 /\ Q > 0
                        above3 == counted /\ d * d * (n - 1) > 9 * n * Q
                        above1_5 == counted /\ 4 * d * d * (n - 1) > 9 * n * Q
                        st == realtime.data[i].status
                    IN  /\ st \in {"offline", "normal", "warning", "danger"}
                        /\ st = "offline" <=> n = 0
                        /\ n > 0 => st = IF above3 THEN "danger"
                                         ELSE IF above1_5 THEN "warning"
                                         ELSE "normal"

\* all four statuses occur, and a point is only warned about although its
\* model-based score would exceed 3
C15_Witness ==
    /\ realtime.status = "ok"
    /\ store["P1"] = <<5, 5, 5, 5, 5, 5, 5, 100>>
    /\ nOld["P1"] = 0
    /\ Exceeds(AiScore(predict_current(store, "P1", TRUE)), 3, 1)
    /\ realtime.data[1].status = "warning"
    /\ realtime.data[2].status = "danger"

-----------------------------------------------------------------------------
(* Properties of ask_agent (checked under SpecAgent) *)

\* C19: a call of ask_agent in which the chat-model call fails does not
\* raise; without stream it returns the error string, with stream it
\* returns a stream that yields the error string and nothing else; and the
\* session memory is after the call what it was before.
C19_FailedCallIsVisibleAndForgotten ==
    [][ (reply'.status = "returned" /\ reply'.fail = "call") =>
            /\ ~reply'.raised
            /\ ~reply'.stream => (reply'.answer = err_msg /\ reply'.chunks = << >>)
            /\ reply'.stream => reply'.chunks = <<err_msg>>
            /\ SESSION_MEMORY' = SESSION_MEMORY ]_vars

\* a failed stream call in a session that already holds one exchange
C19_Witness ==
    /\ reply.status = "returned"
    /\ reply.fail = "call" /\ reply.stream /\ reply.session
    /\ reply.chunks = <<err_msg>>
    /\ Len(reply.history) = 2
    /\ SESSION_MEMORY = reply.history

-----------------------------------------------------------------------------
(* Properties of the batch endpoints (checked under SpecBatch) *)

\* C20: whatever fails for single points, /api/batch_predict (given a
\* non-empty list) answers success with an entry for every listed name, a
\* forecast for each name whose series read succeeds with 5 or more
\* readings and an error for each other; /api/batch_train_and_store
\* answers success with total_points the number of points and
\* success_count the number of points both forecast (series read succeeds
\* with 5 or more readings) and stored (upsert succeeds), which are then in
\* `predictions`; success_count <= total_points.
C20_BatchIsolatesFailures ==
    LET names == {batch.request.point_names[i] :
                     i \in 1..Len(batch.request.point_names)}
        forecast(n) == /\ n \in Points
                       /\ batch.request.read_up[n]
                       /\ Len(store[n]) >= 5
        stored == {n \in names : forecast(n) /\ batch.request.upsert_up[n]}
    IN  /\ (batch.status = "sent" /\ batch.endpoint = "batch_predict" /\ names # {}) =>
              /\ batch.success /\ batch.code = 200
              /\ DOMAIN batch.data = names
              /\ \A n \in names :
                    batch.data[n] = IF forecast(n) THEN "forecast" ELSE "error"
        /\ (batch.status = "sent" /\ batch.endpoint = "batch_train_and_store") =>
              /\ batch.success /\ batch.code = 200
              /\ batch.total_points = Cardinality(Points)
              /\ batch.success_count = Cardinality(stored)
              /\ batch.success_count <= batch.total_points
              /\ stored \subseteq predictions_table

\* the first point cannot be forecast, the second is forecast and stored
C20_Witness ==
    /\ batch.status = "sent" /\ batch.endpoint = "batch_train_and_store"
    /\ Len(store["P1"]) = 3
    /\ Len(store["P2"]) = 5
    /\ batch.request.read_up["P2"] /\ batch.request.upsert_up["P2"]
    /\ batch.success_count = 1 /\ batch.total_points = 2
    /\ predictions_table = {"P2"}

-----------------------------------------------------------------------------
(* Properties of the reported weights (checked under SpecForecast) *)

\* C22 (as claimed): whenever a forecast is produced, the reported weights
\* lstm and stacking add up to 1 and lie in [0, 1] each, and stacking is
\* at most 0.9 and grows with std_dev / mean: it is no larger than the
\* weight for any larger ratio and no smaller than the weight for any
\* smaller one (compared with the ratios 0, 1/2 and 9/10).
C22_WeightsAreProper ==
    result.status = "ok" =>
        LET df == PredictFrame(store, request.point_name, request.external_data,
                               request.store_up)
            v == Volatility(Fit(df), result.uncertainty_std)
            w == result.weights
            refs == { [num |-> 0, den |-> 1], [num |-> 1, den |-> 2],
                      [num |-> 9, den |-> 10] }
        IN  /\ w.lstm + w.stacking = Scale
            /\ w.lstm >= 0 /\ w.lstm <= Scale
            /\ w.stacking >= 0 /\ w.stacking <= Scale
            /\ 10 * w.stacking <= 9 * Scale
            /\ \A c \in refs :
                  /\ v.num * c.den <= c.num * v.den => w.stacking <= StackingWeight(c)
                  /\ v.num * c.den >= c.num * v.den => w.stacking >= StackingWeight(c)

\* C23 (as claimed, checked under SpecSweepHistory): a point whose scored
\* window (its last 30 readings newer than the cutoff, 5 or more of them)
\* holds one value only, so that its standard deviation is 0, is not
\* listed among the anomalies of the sweep.
C23_ConstantWindowNotFlagged ==
    sweep.status = "ok" =>
        \A p \in Points :
            LET w == LastN(RecentRows(store, nOld, p), SweepWindow)
            IN  (Len(w) >= 5 /\ \A i \in 1..Len(w) : w[i] = w[1])
                    => \A i \in 1..Len(sweep.anomalies) :
                          sweep.anomalies[i].point_name # p

-----------------------------------------------------------------------------
(* Frame property of the forecast and scoring requests (SpecReadOnly) *)

\* C21: no forecast (predict), anomaly sweep (with its predict_current
\* calls) or status request changes the stored readings of any point: in
\* every step of every sequence of such requests the store is left as it
\* was.
C21_ReadingsNeverWritten == [][store' = store]_vars

\* all three requests have been answered, the forecast and the sweep with
\* results computed from the readings of P1
C21_Witness ==
    /\ result.status = "ok" /\ request.point_name = "P1"
    /\ ~request.external_data.given /\ request.steps >= 1
    /\ sweep.status = "ok" /\ sweep.locals["P1"].scored
    /\ realtime.status = "ok"
    /\ store["P1"] = <<0, 0, 1, 1, 1, 1, 3>>

-----------------------------------------------------------------------------
(* Properties of the context spot check (checked under SpecContext) *)

\* C24: the spot check skips a point with fewer than 3 recent readings and
\* lists a point exactly when its latest value lies more than 2.0 population
\* standard deviations from the mean of its 3 to 5 most recent readings.
C24_ListedBeyondTwoSigma ==
    rag.status = "returned" =>
        \A p \in Points :
            p \in rag.anomalies <=>
                /\ Len(v_list(store, p)) >= SpotMin
                /\ BeyondThreshold(v_list(store, p))

-----------------------------------------------------------------------------
(* Properties of POST /api/predict (checked under SpecPredictApi) *)

\* C25: when recent_history is non-empty and parses, the forecast is computed
\* from that override alone (it is the same whatever the store holds) and the
\* store is not read; when recent_history is absent, empty or does not parse,
\* the forecast is the one computed from the stored series of the point.
C25_OverrideReplacesStore ==
    (response.status = "sent" /\ request.point_name # "") =>
        LET h == request.recent_history
            parsed == Len(h) > 0 /\ \A i \in DOMAIN h : h[i].numeric
            rows == [i \in DOMAIN h |-> h[i].value]
        IN  IF parsed
            THEN /\ reads = 0
                 /\ \A s \in ApiSeries, up \in BOOLEAN :
                        result = predict([p \in Points |-> s], request.point_name,
                                         request.steps, External(rows), up,
                                         request.noise)
            ELSE /\ reads = 1
                 /\ result = predict(store, request.point_name, request.steps,
                                     NoExternal, request.store_up, request.noise)

\* a request whose override parses, for a point the store has enough readings of
C25_Witness ==
    /\ response.status = "sent"
    /\ request.point_name = "P1"
    /\ request.external_data.given
    /\ Len(request.external_data.rows) >= MinObservations
    /\ Len(store["P1"]) >= MinObservations
    /\ request.store_up
    /\ result.status = "ok"
    /\ result.history = request.external_data.rows
    /\ reads = 0

-----------------------------------------------------------------------------
(* Properties of the injected history (checked under SpecAgent) *)

\* C26: a call of ask_agent with a session id sends the system prompt, then
\* the most recent 6 rounds of that session (a round is a user entry and the
\* assistant entry that answers it) oldest first, then the realtime-context
\* message and the question; older rounds are left out.
C26_LastSixRoundsSent ==
    [][ (reply'.status = "returned" /\ reply'.session) =>
            reply'.messages =
                << [role |-> "system", content |-> <<"prompt">>] >>
                \o LastN(SESSION_MEMORY, 2 * DialogueRounds)
                \o << [role |-> "system", content |-> <<"context">>],
                      [role |-> "user", content |-> <<reply'.query>>] >> ]_vars

-----------------------------------------------------------------------------
(* Properties of the session memory under concurrency (SpecMemory) *)

\* C27: once the ask_agent calls on a session have completed, however they
\* interleaved, the memory of the session has even length, its entries
\* alternate user, assistant, user, assistant, ..., and each completed
\* exchange has left exactly one user entry directly followed by its
\* assistant entry.
C27_MemoryAlternates ==
    (\A t \in Threads : pc[t] \in {"idle", "done", "failed"}) =>
        /\ Len(SESSION_MEMORY) % 2 = 0
        /\ \A i \in DOMAIN SESSION_MEMORY :
               SESSION_MEMORY[i].role = IF i % 2 = 1 THEN "user" ELSE "assistant"
        /\ \A t \in Threads :
               pc[t] = "done" =>
                   Cardinality({i \in 1..(Len(SESSION_MEMORY) - 1) :
                                   /\ SESSION_MEMORY[i].role = "user"
                                   /\ SESSION_MEMORY[i].content[1] = t
                                   /\ SESSION_MEMORY[i + 1].role = "assistant"}) = 1

-----------------------------------------------------------------------------
(* Properties of the event stream (checked under SpecStream) *)

\* C28: an event stream of ask_agent_stream is zero or more content events
\* with done = false followed by exactly one terminal event, the done = true
\* event or an error event; nothing follows the terminal event, so done = true
\* never comes after an error.
C28_OneTerminalEventLast ==
    sse.status = "sent" =>
        LET events == sse.events
            Terminal(e) == e.event = "error" \/ e.done
        IN  /\ Len(events) >= 1
            /\ Terminal(events[Len(events)])
            /\ \A i \in 1..(Len(events) - 1) :
                   /\ events[i].event = "content"
                   /\ ~events[i].done

\* a stream that broke after its first chunk: content event, then the error event
C28_Witness ==
    /\ sse.status = "sent"
    /\ reply.raised
    /\ Len(sse.events) = 2
    /\ sse.events[1].event = "content"
    /\ sse.events[2].event = "error"

-----------------------------------------------------------------------------
(* Properties of the anomaly report (checked under SpecReport) *)

\* C30: GET /api/ai_anomaly_report answers with success and a report built
\* from the point data: the points with at least 5 readings whose z-score is
\* above 1.5, graded high (> 3), medium (> 2) or low.
C30_ReportBuiltFromPointData ==
    report.status = "sent" =>
        /\ report.success
        /\ report.anomalies =
               { [point_name |-> p, severity |-> Severity(StatsScore(store[p]))] :
                   p \in { q \in Points :
                              /\ Len(store[q]) >= MinObservations
                              /\ Severity(StatsScore(store[q])) # "none" } }

-----------------------------------------------------------------------------
(* Properties of the shared globals (checked under SpecThreads) *)

\* C9 (as claimed): however the first calls of get_predictor interleave, a
\* FusionPredictor is constructed at most once, load_data completes at most
\* once, and all callers are handed the same instance.
C9_PredictorInitialisedOnce ==
    /\ instances <= 1
    /\ \A i \in Threads : loaded[i] <= 1
    /\ \A t, u \in Threads : (got[t] # 0 /\ got[u] # 0) => got[t] = got[u]

\* C10 (as claimed): over all interleavings of ask_agent and
\* ask_agent_stream requests the narrative context is generated at most
\* once, the cache never holds anything but that first value, and every
\* request hands that value to the analyzer.
C10_ContextGeneratedOnce ==
    /\ generations <= 1
    /\ CONTEXT_CACHE \in {0, 1}
    /\ \A t \in Threads : context[t] \in {0, 1}

\* C29 (as claimed): however the first calls of get_predictor interleave, a
\* request is never handed a predictor whose load_data has not completed.
C29_PredictorLoadedWhenHanded ==
    \A t \in Threads : got[t] # 0 => loaded[got[t]] >= 1

=============================================================================
